---- MODULE Spec2Model ----
(***************************************************************************)
(* State-machine model of the tool registry (tools/registry.py,            *)
(* build_tools_from_yaml) and of the deployment script that calls it       *)
(* (scripts/deploy_agent.py: load, validate, connect, convert tools,       *)
(* create_version, exit status), and of scripts/deploy_guardrails.py       *)
(* (validate, what-if, create, show through the az command line).          *)
(*                                                                         *)
(* Python values: scalars are strings, None is the string None below,      *)
(* a dict is a TLA+ function whose DOMAIN is its key set.  A value that    *)
(* may be either None or a container is tagged (NoneObj / Dict / List) so  *)
(* that the two never have to be compared with each other.                 *)
(***************************************************************************)
EXTENDS Integers, Sequences, FiniteSets, TLC

\* Longest tool-declaration sequence handed to the registry.
MaxTools == 2

----------------------------------------------------------------------------
\* Python values

None == "<None>"

NoneObj == [tag |-> "None"]

Dict(m) == [tag |-> "dict", items |-> m]

List(s) == [tag |-> "list", items |-> s]

EmptyMap == [k \in {} |-> None]

\* Python truthiness of a scalar: `not v` holds for None and for "".
Truthy(v) == v \notin {None, ""}

\* dict.get(k, default)
Get(d, k, default) == IF k \in DOMAIN d THEN d[k] ELSE default

----------------------------------------------------------------------------
\* Results of one loop iteration of build_tools_from_yaml

NoError == [type |-> "none"]

NoTool == [cls |-> "none"]

\* ValueError raised by the registry; tool_id is the value interpolated in msg.
ValueError(msg, tool_id) == [type |-> "ValueError", msg |-> msg, tool_id |-> tool_id]

\* options.get(...) when options is None.
AttributeError == [type |-> "AttributeError",
                   msg |-> "'NoneType' object has no attribute 'get'"]

\* A line written by print(); arg is the value interpolated in it.
Warn(msg, arg) == [msg |-> msg, arg |-> arg]

Appended(tool, out) == [act |-> "append", tool |-> tool, out |-> out, err |-> NoError]

Skipped(out) == [act |-> "skip", tool |-> NoTool, out |-> out, err |-> NoError]

Raised(err) == [act |-> "raise", tool |-> NoTool, out |-> <<>>, err |-> err]

MissingTypeMsg == "Tool entry missing 'type', skipping"

MissingVectorStoreMsg == "file_search tool missing 'vector_store_id' in options"

UnsupportedMsg == "Unsupported tool type in YAML"

OpenApiMissingMsg == "OpenAPI tool missing 'specification' URL"

McpMissingMsg == "MCP tool missing 'server_url'"

----------------------------------------------------------------------------
\* build_tools_from_yaml: the body of the loop, one operator per branch

\* The mutant of ResolveType: `type` wins whenever the key is present.
ResolveTypeByPresence(t) ==
    IF "type" \in DOMAIN t THEN t["type"] ELSE Get(t, "kind", None)

\* tool_type = t.get("type"); if not tool_type and "kind" in t: tool_type = t.get("kind")
ResolveType(t) ==
    LET tool_type == Get(t, "type", None)
    IN  IF ~Truthy(tool_type) /\ "kind" \in DOMAIN t THEN Get(t, "kind", None)
        ELSE tool_type

\* tool_id = t.get("id"); if not tool_id and "name" in t: tool_id = t.get("name")
ResolveId(t) ==
    LET tool_id == Get(t, "id", None)
    IN  IF ~Truthy(tool_id) /\ "name" \in DOMAIN t THEN Get(t, "name", None)
        ELSE tool_id

\* options = t.get("options", {})
Options(t) == Get(t, "options", Dict(EmptyMap))

\* options.get exists only when options is a dict.
HasGet(options) == options.tag = "dict"

\* The mutant of AzureAISearch: `options.get(k) or default`, which also replaces a
\* supplied value that is falsy.
AzureAISearchOrDefault(tool_id, options) ==
    IF ~HasGet(options) THEN Raised(AttributeError)
    ELSE LET connection_id == Get(options.items, "connection_id", None)
             index_name == Get(options.items, "index_name", None)
         IN  Appended([cls |-> "AzureAISearchAgentTool",
                       name |-> tool_id,
                       connection_id |-> IF Truthy(connection_id) THEN connection_id
                                         ELSE "CONN_PRIMARY_SEARCH",
                       index_name |-> IF Truthy(index_name) THEN index_name
                                      ELSE "primary-search-index"],
                      <<>>)

\* connection_id / index_name with their defaults, one AzureAISearchAgentTool appended.
AzureAISearch(tool_id, options) ==
    IF ~HasGet(options) THEN Raised(AttributeError)
    ELSE Appended([cls |-> "AzureAISearchAgentTool",
                   name |-> tool_id,
                   connection_id |-> Get(options.items, "connection_id", "CONN_PRIMARY_SEARCH"),
                   index_name |-> Get(options.items, "index_name", "primary-search-index")],
                  <<>>)

FileSearch(tool_id, options) ==
    IF ~HasGet(options) THEN Raised(AttributeError)
    ELSE LET vector_store_id == Get(options.items, "vector_store_id", None)
         IN  Appended([cls |-> "FileSearchTool",
                       name |-> tool_id,
                       vector_store_id |-> vector_store_id],
                      IF ~Truthy(vector_store_id)
                      THEN <<Warn(MissingVectorStoreMsg, tool_id)>>
                      ELSE <<>>)

\* The mutant of OpenApiSpecUrl: the legacy key wins over `specification`.
OpenApiSpecUrlLegacyFirst(items) ==
    LET spec_url == Get(items, "spec_url", None)
    IN  IF ~Truthy(spec_url) THEN Get(items, "specification", None) ELSE spec_url

\* spec_url = options.get("specification"); if not spec_url: options.get("spec_url")
OpenApiSpecUrl(items) ==
    LET spec_url == Get(items, "specification", None)
    IN  IF ~Truthy(spec_url) THEN Get(items, "spec_url", None) ELSE spec_url

OpenApi(tool_id, options) ==
    IF ~HasGet(options) THEN Raised(AttributeError)
    ELSE LET spec_url == OpenApiSpecUrl(options.items)
             connection_id == Get(options.items, "connection_id", None)
         IN  IF ~Truthy(spec_url) THEN Raised(ValueError(OpenApiMissingMsg, tool_id))
             ELSE IF Truthy(connection_id)
                  THEN Appended([cls |-> "OpenApiAgentTool",
                                 spec_url |-> spec_url,
                                 connection_id |-> connection_id], <<>>)
                  ELSE Appended([cls |-> "OpenApiAgentTool",
                                 spec_url |-> spec_url], <<>>)

Mcp(tool_id, options) ==
    IF ~HasGet(options) THEN Raised(AttributeError)
    ELSE LET server_url == Get(options.items, "server_url", None)
             allowed_tools == Get(options.items, "allowed_tools", <<>>)
         IN  IF ~Truthy(server_url) THEN Raised(ValueError(McpMissingMsg, tool_id))
             ELSE Appended([cls |-> "MCPTool",
                            name |-> tool_id,
                            server_url |-> server_url,
                            allowed_tools |-> allowed_tools], <<>>)

CodeInterpreter(tool_id, options) ==
    IF ~HasGet(options) THEN Raised(AttributeError)
    ELSE Appended([cls |-> "CodeInterpreterTool",
                   name |-> tool_id,
                   max_execution_time_seconds |->
                       Get(options.items, "max_execution_time_seconds", None),
                   memory_limit_mb |-> Get(options.items, "memory_limit_mb", None)],
                  <<>>)

\* The mutant of BingConnection: the branch falls through to the warning.
BingConnectionWarns(tool_type) == Skipped(<<Warn(UnsupportedMsg, tool_type)>>)

\* elif tool_type == "bing_connection": pass
BingConnection(tool_type) == Skipped(<<>>)

\* else: print("Unsupported tool type ...")
Unsupported(tool_type) == Skipped(<<Warn(UnsupportedMsg, tool_type)>>)

\* One iteration of `for t in tools_cfg or []`.
Process(t) ==
    LET tool_type == ResolveType(t)
        tool_id == ResolveId(t)
        options == Options(t)
    IN  IF ~Truthy(tool_type) THEN Skipped(<<Warn(MissingTypeMsg, t)>>)
        ELSE CASE tool_type = "azure_ai_search" -> AzureAISearch(tool_id, options)
               [] tool_type = "file_search" -> FileSearch(tool_id, options)
               [] tool_type = "openapi" -> OpenApi(tool_id, options)
               [] tool_type = "mcp" -> Mcp(tool_id, options)
               [] tool_type = "code_interpreter" -> CodeInterpreter(tool_id, options)
               [] tool_type = "bing_connection" -> BingConnection(tool_type)
               [] OTHER -> Unsupported(tool_type)

\* The mutant of AppendTool: the descriptor is put in front.
PrependTool(ts, tool) == <<tool>> \o ts

\* tools.append(...)
AppendTool(ts, tool) == Append(ts, tool)

\* The mutant of AfterReads: `t.setdefault("options", {})` in place of
\* `t.get("options", {})` writes the default into every declaration that lacks it.
AfterReadsSetDefault(cfg) ==
    IF cfg.tag # "list" THEN cfg
    ELSE List([k \in DOMAIN cfg.items |->
                  IF "options" \in DOMAIN cfg.items[k] THEN cfg.items[k]
                  ELSE cfg.items[k] @@ [options |-> Dict(EmptyMap)]])

\* tools_cfg after an iteration: the loop body reaches the declarations and their
\* options through dict.get alone, which writes nothing.
AfterReads(cfg) == cfg

\* `tools_cfg or []`
Declarations(cfg) == IF cfg.tag = "list" THEN cfg.items ELSE <<>>

----------------------------------------------------------------------------
\* Inputs: the YAML documents and tool declarations the program is run on

\* A one-key dict {k: v} when S = {v}, the empty dict when S = {} (key absent).
Fld(k, S) == [x \in (IF S = {} THEN {} ELSE {k}) |-> CHOOSE v \in S : TRUE]

Decl(type, kind, id, name, options) ==
    Fld("type", type) @@ Fld("kind", kind) @@ Fld("id", id) @@ Fld("name", name)
        @@ Fld("options", options)

\* The `options` entry of a declaration: absent, null, or a mapping out of S.
OptionEntries(S) == {{}, {NoneObj}} \cup {{Dict(m)} : m \in S}

SearchOptions ==
    {EmptyMap,
     [connection_id |-> ""],
     [index_name |-> "index-1"],
     [connection_id |-> "CONN_1", index_name |-> "index-1"]}

FileSearchOptions ==
    {EmptyMap, [vector_store_id |-> ""], [vector_store_id |-> "vs-1"]}

OpenApiOptions ==
    {EmptyMap,
     [specification |-> ""],
     [specification |-> "https://example.com/spec.json"],
     [spec_url |-> "https://example.com/legacy.json"],
     [specification |-> "", spec_url |-> "https://example.com/legacy.json"],
     [specification |-> "https://example.com/spec.json",
      spec_url |-> "https://example.com/legacy.json"],
     [specification |-> "https://example.com/spec.json", connection_id |-> ""],
     [specification |-> "https://example.com/spec.json", connection_id |-> "CONN_1"]}

McpOptions ==
    {EmptyMap,
     [server_url |-> ""],
     [server_url |-> "https://mcp.example.com"],
     [server_url |-> "https://mcp.example.com", allowed_tools |-> <<"search">>]}

CodeInterpreterOptions == {[max_execution_time_seconds |-> "30"]}

\* Declarations that exercise one kind each, with every shape of `options`.
KindDecls ==
    {Decl({"azure_ai_search"}, {}, {"MySearch"}, {}, o) : o \in OptionEntries(SearchOptions)}
    \cup {Decl({"file_search"}, {}, {"Docs"}, {}, o) :
              o \in OptionEntries(FileSearchOptions) \ {{}}}
    \cup {Decl({"openapi"}, {}, {"WebSearch"}, {}, o) :
              o \in OptionEntries(OpenApiOptions) \ {{}}}
    \cup {Decl({"mcp"}, {}, {"Mcp"}, {}, o) : o \in OptionEntries(McpOptions) \ {{}}}
    \cup {Decl({"code_interpreter"}, {}, {"Code"}, {}, {Dict(m)}) :
              m \in CodeInterpreterOptions}

\* Declarations that exercise the type/kind and id/name aliases.
AliasDecls ==
    {Decl(ty, ki, {"A"}, {}, {}) :
         ty \in {{}, {""}, {None}, {"code_interpreter"}, {"bing_connection"}, {"function"}},
         ki \in {{}, {"file_search"}}}
    \cup {Decl({"code_interpreter"}, {}, id, na, {}) :
              id \in {{}, {""}, {"A"}}, na \in {{}, {"B"}}}

Decls == KindDecls \cup AliasDecls

SeqsUpTo(S, n) == UNION {[1..k -> S] : k \in 0..n}

\* tools_cfg of a direct call of build_tools_from_yaml (as scripts/verify_tools.py makes).
DirectInputs == {NoneObj} \cup {List(s) : s \in SeqsUpTo(Decls, MaxTools)}

\* Declarations of the documents main is run on: two that build, one that is
\* skipped, one that raises ValueError and one that raises AttributeError.
DocDecls ==
    {Decl({"openapi"}, {}, {"WebSearch"}, {},
          {Dict([specification |-> "https://example.com/spec.json"])}),
     Decl({"file_search"}, {}, {"Docs"}, {}, {Dict([vector_store_id |-> "vs-1"])}),
     Decl({"bing_connection"}, {}, {"Bing"}, {}, {}),
     Decl({"mcp"}, {}, {"Mcp"}, {}, {Dict(EmptyMap)}),
     Decl({"azure_ai_search"}, {}, {"MySearch"}, {}, {NoneObj})}

ToolsEntries ==
    {{}, {NoneObj}} \cup {{List(s)} : s \in SeqsUpTo(DocDecls, MaxTools)}

\* The parsed agent.yaml: `name`, `model` and `tools` are the keys the script reads.
ValidDocs ==
    {Dict([name |-> "agent", model |-> Dict([id |-> "gpt-4o"])] @@ Fld("tools", T)) :
         T \in ToolsEntries}

InvalidDocs ==
    {Dict([model |-> Dict([id |-> "gpt-4o"])]),
     Dict([name |-> "agent"]),
     Dict([name |-> "agent", model |-> Dict(EmptyMap)]),
     Dict([name |-> "agent", model |-> [tag |-> "str"]])}

\* What load_agent_yaml finds at yaml_path: no file, an empty file, or a document.
YamlFiles == {[tag |-> "missing"], NoneObj} \cup ValidDocs \cup InvalidDocs

\* tools_yaml of a direct call of convert_tools_from_yaml.
ConvertInputs == {NoneObj} \cup {List(s) : s \in SeqsUpTo(DocDecls, MaxTools)}

----------------------------------------------------------------------------
\* State

VARIABLES
    entry,         \* the function the run was started at: "build", "convert", "main"
    pc,            \* where the run is
    agent_def,     \* deploy_agent: the parsed document (NoneObj before it is loaded)
    client,        \* the backend client handle: "none", "mock", "default", "cli"
    client_calls,  \* the calls made on the client handle, in order
    tools_cfg,     \* build_tools_from_yaml: its tools_cfg argument
    i,             \* build_tools_from_yaml: position of the next declaration
    tools,         \* build_tools_from_yaml: the local list `tools`
    warnings,      \* the warning lines the registry has printed
    result,        \* the value returned by the entry's registry call (List) or unset
    params_tools,  \* deploy_agent: agent_create_params.get('tools')
    raised,        \* the exception that ended the run, NoError if none
    exit_status,   \* main: "running", "0" or "1"
    environment,   \* deploy_guardrails: its environment argument (None before main read it)
    az_calls       \* deploy_guardrails: the az commands run so far, with their outcome

vars == <<az_calls, environment, entry, pc, agent_def, client, client_calls, tools_cfg, i, tools, warnings,
          result, params_tools, raised, exit_status>>

Unset == [tag |-> "unset"]

Init ==
    /\ entry \in {"build", "convert", "main", "guardrails"}
    /\ pc = (CASE entry = "main" -> "load"
               [] entry = "guardrails" -> "guardrails_main"
               [] OTHER -> entry)
    /\ agent_def = NoneObj
    /\ client = (IF entry \in {"main", "guardrails"} THEN "none" ELSE "mock")
    /\ client_calls = <<>>
    /\ tools_cfg \in (CASE entry = "build" -> DirectInputs
                        [] entry = "convert" -> ConvertInputs
                        [] OTHER -> {Unset})
    /\ i = 1
    /\ tools = <<>>
    /\ warnings = <<>>
    /\ result = Unset
    /\ params_tools = NoneObj
    /\ raised = NoError
    /\ exit_status = "running"
    /\ environment = None
    /\ az_calls = <<>>

----------------------------------------------------------------------------
\* scripts/deploy_agent.py

\* The mutant of MainExitStatus: main always exits 0.
MainExitStatusAlwaysZero(err) == "0"

\* main: sys.exit(0) after deploy_agent returned, sys.exit(1) in `except Exception`.
MainExitStatus(err) == IF err = NoError THEN "0" ELSE "1"

\* An exception leaves deploy_agent and is caught by main, which exits.
Fail(err) ==
    /\ raised' = err
    /\ pc' = "exited"
    /\ exit_status' = MainExitStatus(err)

\* load_agent_yaml followed by validate_agent_definition.
LoadError(file) ==
    IF file.tag = "missing" THEN [type |-> "FileNotFoundError", msg |-> "Agent YAML not found"]
    ELSE IF file.tag = "None" \/ DOMAIN file.items = {}
         THEN [type |-> "ValueError", msg |-> "Agent YAML is empty"]
    ELSE IF "name" \notin DOMAIN file.items
         THEN [type |-> "ValueError", msg |-> "Missing required field in agent.yaml: name"]
    ELSE IF "model" \notin DOMAIN file.items
         THEN [type |-> "ValueError", msg |-> "Missing required field in agent.yaml: model"]
    ELSE IF file.items["model"].tag # "dict"
         THEN [type |-> "ValueError", msg |-> "model must be a dict with 'id' field"]
    ELSE IF "id" \notin DOMAIN file.items["model"].items
         THEN [type |-> "ValueError", msg |-> "Missing model.id in agent.yaml"]
    ELSE NoError

LoadAgent ==
    /\ pc = "load"
    /\ \E file \in YamlFiles :
         IF LoadError(file) = NoError
         THEN /\ agent_def' = file
              /\ pc' = "connect"
              /\ UNCHANGED <<raised, exit_status>>
         ELSE /\ Fail(LoadError(file))
              /\ UNCHANGED agent_def
    /\ UNCHANGED <<az_calls, environment, entry, client, client_calls, tools_cfg, i, tools, warnings, result,
                   params_tools>>

\* DefaultAzureCredential first, AzureCliCredential second, else the error is re-raised.
Connect ==
    /\ pc = "connect"
    /\ \E default_ok \in BOOLEAN, cli_ok \in BOOLEAN :
         IF default_ok \/ cli_ok
         THEN /\ client' = (IF default_ok THEN "default" ELSE "cli")
              /\ pc' = "prepare"
              /\ UNCHANGED <<raised, exit_status>>
         ELSE /\ Fail([type |-> "CredentialError", msg |-> "Failed with Azure CLI credentials"])
              /\ UNCHANGED client
    /\ UNCHANGED <<az_calls, environment, entry, agent_def, client_calls, tools_cfg, i, tools, warnings, result,
                   params_tools>>

\* `agent_def['tools']` is truthy: a non-empty list.
HasTools(def) ==
    /\ "tools" \in DOMAIN def.items
    /\ def.items["tools"].tag = "list"
    /\ def.items["tools"].items # <<>>

\* if 'tools' in agent_def and agent_def['tools']: convert_tools_from_yaml(...)
PrepareParams ==
    /\ pc = "prepare"
    /\ IF HasTools(agent_def)
       THEN /\ tools_cfg' = agent_def.items["tools"]
            /\ pc' = "convert"
       ELSE /\ pc' = "create"
            /\ UNCHANGED tools_cfg
    /\ UNCHANGED <<az_calls, environment, entry, agent_def, client, client_calls, i, tools, warnings, result,
                   params_tools, raised, exit_status>>

\* The mutant of ParamsTools: the list is stored whether or not it is empty.
ParamsToolsAlways(sdk_tools) == List(sdk_tools)

\* if sdk_tools: agent_create_params['tools'] = sdk_tools
ParamsTools(sdk_tools) == IF sdk_tools # <<>> THEN List(sdk_tools) ELSE NoneObj

\* The mutant of Return: the function ends without a return statement, so its
\* caller gets None.
ReturnNone(sdk_tools) ==
    /\ result' = NoneObj
    /\ IF entry = "main"
       THEN /\ params_tools' = NoneObj
            /\ pc' = "create"
       ELSE /\ pc' = "returned"
            /\ UNCHANGED params_tools

\* The registry call returns sdk_tools to whoever made it.
Return(sdk_tools) ==
    /\ result' = List(sdk_tools)
    /\ IF entry = "main"
       THEN /\ params_tools' = ParamsTools(sdk_tools)
            /\ pc' = "create"
       ELSE /\ pc' = "returned"
            /\ UNCHANGED params_tools

\* convert_tools_from_yaml: `if not tools_yaml: return []`, else the registry is called.
ConvertTools ==
    /\ pc = "convert"
    /\ IF Declarations(tools_cfg) = <<>>
       THEN Return(<<>>)
       ELSE /\ pc' = "build"
            /\ UNCHANGED <<result, params_tools>>
    /\ UNCHANGED <<az_calls, environment, entry, agent_def, client, client_calls, tools_cfg, i, tools, warnings,
                   raised, exit_status>>

----------------------------------------------------------------------------
\* tools/registry.py: build_tools_from_yaml

\* One iteration of the loop over the declarations.
BuildStep ==
    /\ pc = "build"
    /\ i <= Len(Declarations(tools_cfg))
    /\ LET r == Process(Declarations(tools_cfg)[i])
       IN  /\ warnings' = warnings \o r.out
           /\ tools_cfg' = AfterReads(tools_cfg)
           /\ IF r.act = "raise"
              THEN /\ IF entry = "main"
                      THEN Fail(r.err)
                      ELSE /\ raised' = r.err
                           /\ pc' = "raised"
                           /\ UNCHANGED exit_status
                   /\ UNCHANGED <<i, tools>>
              ELSE /\ tools' = (IF r.act = "append" THEN AppendTool(tools, r.tool) ELSE tools)
                   /\ i' = i + 1
                   /\ UNCHANGED <<pc, raised, exit_status>>
    /\ UNCHANGED <<az_calls, environment, entry, agent_def, client, client_calls, result, params_tools>>

\* `return tools` once the loop is over.
BuildReturn ==
    /\ pc = "build"
    /\ i > Len(Declarations(tools_cfg))
    /\ Return(tools)
    /\ UNCHANGED <<az_calls, environment, entry, agent_def, client, client_calls, tools_cfg, i, tools, warnings,
                   raised, exit_status>>

----------------------------------------------------------------------------
\* scripts/deploy_agent.py: the registration call

\* client.agents.create_version(..., tools=agent_create_params.get('tools')), then
\* main prints the result and exits.
CreateVersion ==
    /\ pc = "create"
    /\ \E ok \in BOOLEAN :
         /\ client_calls' = Append(client_calls,
                                   [method |-> "agents.create_version",
                                    tools |-> params_tools,
                                    ok |-> ok])
         /\ Fail(IF ok THEN NoError
                 ELSE [type |-> "HttpResponseError", msg |-> "create_version failed"])
    /\ UNCHANGED <<az_calls, environment, entry, agent_def, client, tools_cfg, i, tools, warnings, result,
                   params_tools>>

----------------------------------------------------------------------------
\* scripts/deploy_guardrails.py

\* sys.argv[1:] of the script.
GuardrailsArgs == {<<>>, <<"nonprod">>, <<"prod">>, <<"PROD">>}

\* str.lower() on the environment names the script is run with.
Lower(s) == CASE s = "PROD" -> "prod" [] OTHER -> s

\* Captured stdout of `az deployment group show ... -o tsv`, as words and whitespace.
ShowOutputs ==
    {<<"Succeeded", "\n">>, <<"Succeeded">>, <<" ", "Succeeded", "\n">>,
     <<"Failed", "\n">>, <<"Running", "\n">>, <<"\n">>}

Whitespace == {" ", "\n"}

RECURSIVE LStrip(_)
LStrip(s) == IF s # <<>> /\ Head(s) \in Whitespace THEN LStrip(Tail(s)) ELSE s

RECURSIVE RStrip(_)
RStrip(s) ==
    IF s # <<>> /\ s[Len(s)] \in Whitespace THEN RStrip(SubSeq(s, 1, Len(s) - 1)) ELSE s

\* str.strip()
Strip(s) == RStrip(LStrip(s))

\* The mutant of Verified: the else branch does not exit, any status passes.
VerifiedAnyStatus(stdout) == TRUE

\* status = result.stdout.strip(); status == 'Succeeded'
Verified(stdout) == Strip(stdout) = <<"Succeeded">>

\* The process ends: sys.exit(status), or main returns (status "0").
GuardrailsExit(status, err) ==
    /\ pc' = "exited"
    /\ exit_status' = status
    /\ raised' = err

\* One subprocess.run(['az', ...], check=True) that has ended.
AzCall(cmd, name, outcome, stdout) ==
    [cmd |-> cmd, name |-> name, outcome |-> outcome, stdout |-> stdout]

\* main: usage and exit 1 without an argument, else deploy_guardrails(argv[1].lower()).
GuardrailsMain ==
    /\ pc = "guardrails_main"
    /\ \E argv \in GuardrailsArgs :
         IF Len(argv) < 1
         THEN /\ GuardrailsExit("1", NoError)
              /\ UNCHANGED environment
         ELSE /\ environment' = Lower(argv[1])
              /\ pc' = "guardrails_paths"
              /\ UNCHANGED <<exit_status, raised>>
    /\ UNCHANGED <<az_calls, entry, agent_def, client, client_calls, tools_cfg, i, tools,
                   warnings, result, params_tools>>

\* deploy_guardrails: FileNotFoundError when the template or the parameter file is
\* missing; main catches it and exits 1.
GuardrailsPaths ==
    /\ pc = "guardrails_paths"
    /\ \E bicep_exists \in BOOLEAN, param_exists \in BOOLEAN :
         IF bicep_exists /\ param_exists
         THEN /\ pc' = "az_validate"
              /\ UNCHANGED <<exit_status, raised>>
         ELSE GuardrailsExit("1", [type |-> "FileNotFoundError",
                                   msg |-> IF bicep_exists
                                           THEN "Parameters file not found"
                                           ELSE "Bicep template not found"])
    /\ UNCHANGED <<az_calls, environment, entry, agent_def, client, client_calls, tools_cfg,
                   i, tools, warnings, result, params_tools>>

\* Step 1: az bicep build.  A non-zero exit is CalledProcessError -> sys.exit(1);
\* az not being installed is a FileNotFoundError that main catches -> exit 1.
AzValidate ==
    /\ pc = "az_validate"
    /\ \E outcome \in {"ok", "nonzero", "oserror"} :
         /\ az_calls' = Append(az_calls, AzCall("bicep build", <<>>, outcome, <<>>))
         /\ IF outcome = "ok"
            THEN /\ pc' = "az_whatif"
                 /\ UNCHANGED <<exit_status, raised>>
            ELSE GuardrailsExit("1", IF outcome = "nonzero" THEN NoError
                                     ELSE [type |-> "FileNotFoundError",
                                           msg |-> "No such file or directory: 'az'"])
    /\ UNCHANGED <<environment, entry, agent_def, client, client_calls, tools_cfg, i, tools,
                   warnings, result, params_tools>>

\* Step 2: az deployment group what-if.  A failure is printed and ignored.
AzWhatIf ==
    /\ pc = "az_whatif"
    /\ \E outcome \in {"ok", "nonzero"} :
         az_calls' = Append(az_calls,
                            AzCall("what-if", <<"guardrails", environment, "whatif">>,
                                   outcome, <<>>))
    /\ pc' = "az_create"
    /\ UNCHANGED <<environment, entry, agent_def, client, client_calls, tools_cfg, i, tools,
                   warnings, result, params_tools, raised, exit_status>>

\* Step 3: az deployment group create.  A failure is sys.exit(1).
AzCreate ==
    /\ pc = "az_create"
    /\ \E outcome \in {"ok", "nonzero"} :
         /\ az_calls' = Append(az_calls,
                               AzCall("create", <<"guardrails", environment>>, outcome, <<>>))
         /\ IF outcome = "ok"
            THEN /\ pc' = "az_show"
                 /\ UNCHANGED <<exit_status, raised>>
            ELSE GuardrailsExit("1", NoError)
    /\ UNCHANGED <<environment, entry, agent_def, client, client_calls, tools_cfg, i, tools,
                   warnings, result, params_tools>>

\* Step 4: az deployment group show.  The function returns (and main ends, status 0)
\* when the command succeeded and printed Succeeded; anything else is sys.exit(1).
AzShow ==
    /\ pc = "az_show"
    /\ \E outcome \in {"ok", "nonzero"}, stdout \in ShowOutputs :
         /\ outcome = "nonzero" => stdout = <<"\n">>
         /\ az_calls' = Append(az_calls,
                               AzCall("show", <<"guardrails", environment>>, outcome, stdout))
         /\ GuardrailsExit(IF outcome = "ok" /\ Verified(stdout) THEN "0" ELSE "1", NoError)
    /\ UNCHANGED <<environment, entry, agent_def, client, client_calls, tools_cfg, i, tools,
                   warnings, result, params_tools>>

----------------------------------------------------------------------------
Next ==
    \/ LoadAgent
    \/ Connect
    \/ PrepareParams
    \/ ConvertTools
    \/ BuildStep
    \/ BuildReturn
    \/ CreateVersion
    \/ GuardrailsMain
    \/ GuardrailsPaths
    \/ AzValidate
    \/ AzWhatIf
    \/ AzCreate
    \/ AzShow

Spec == Init /\ [][Next]_vars

----------------------------------------------------------------------------
\* Vocabulary of the properties

\* The declarations the registry call iterates over.
decls == Declarations(tools_cfg)

\* The loop is about to process the declaration Cur: the only step such a state
\* can take is BuildStep.
Stepping == pc = "build" /\ i <= Len(decls)

Cur == decls[i]

\* The keys of the declaration's `options` mapping (none when it is absent or null).
OptionKeys(t) ==
    IF "options" \in DOMAIN t /\ t["options"].tag = "dict"
    THEN DOMAIN t["options"].items
    ELSE {}

OptionValue(t, k) == t["options"].items[k]

\* What the step did.
AppendedOne == Len(tools') = Len(tools) + 1 /\ SubSeq(tools', 1, Len(tools)) = tools

NewTool == tools'[Len(tools')]

Continued == pc' = "build" /\ i' = i + 1 /\ raised' = NoError

Aborted == pc' \in {"raised", "exited"} /\ raised' # NoError /\ result' = Unset

WarnedOnce == Len(warnings') = Len(warnings) + 1

RECURSIVE Restrict(_)
\* The descriptors of the descriptor-producing declarations of s, in the order of s.
Restrict(s) ==
    IF s = <<>> THEN <<>>
    ELSE (IF Process(Head(s)).act = "append" THEN <<Process(Head(s)).tool>> ELSE <<>>)
             \o Restrict(Tail(s))

----------------------------------------------------------------------------
\* C1: whenever build_tools_from_yaml returns, what it returns is the input
\* sequence restricted to the declarations that produce a descriptor, one
\* descriptor each and in the order of the input; and while the loop runs, `tools`
\* is that restriction of the declarations processed so far.
C1_OrderPreserved ==
    /\ (pc = "build" => tools = Restrict(SubSeq(decls, 1, i - 1)))
    /\ (result # Unset => result = List(Restrict(decls)))

\* A direct call has returned two different descriptors for two declarations.
C1_Witness ==
    /\ entry = "build" /\ pc = "returned"
    /\ Len(decls) = 2 /\ Len(result.items) = 2
    /\ result.items[1] # result.items[2]

\* Resolved discriminant of the declaration about to be processed.
CurIs(kind) == Stepping /\ ResolveType(Cur) = kind

----------------------------------------------------------------------------
\* C2: processing an openapi declaration that has neither a `specification` nor
\* a `spec_url` option raises a ValueError whose message names the declaration's
\* resolved id, and the call returns nothing (no later declaration is processed).
C2_MissingSpecRaisesNamedError ==
    [][CurIs("openapi") /\ OptionKeys(Cur) \cap {"specification", "spec_url"} = {}
         => /\ Aborted
            /\ raised'.type = "ValueError"
            /\ "tool_id" \in DOMAIN raised'
            /\ raised'.tool_id = ResolveId(Cur)
            /\ UNCHANGED <<i, tools>>]_vars

----------------------------------------------------------------------------
\* C3: an mcp declaration without a `server_url` option raises a ValueError that
\* aborts the build; with `server_url` present and `allowed_tools` absent it
\* appends one descriptor carrying that server_url and allowed_tools = <<>>.
C3_McpServerUrl ==
    [][CurIs("mcp")
         => /\ "server_url" \notin OptionKeys(Cur)
                => Aborted /\ raised'.type = "ValueError"
            /\ "server_url" \in OptionKeys(Cur) /\ "allowed_tools" \notin OptionKeys(Cur)
                => /\ AppendedOne /\ Continued
                   /\ NewTool.cls = "MCPTool"
                   /\ NewTool.server_url = OptionValue(Cur, "server_url")
                   /\ NewTool.allowed_tools = <<>>]_vars

----------------------------------------------------------------------------
SupportedKinds == {"azure_ai_search", "file_search", "openapi", "mcp", "code_interpreter"}

\* C4 as stated: every declaration whose resolved discriminant is not one of the
\* five supported kinds, "bing_connection" included, emits a warning, produces no
\* descriptor and leaves the rest of the build as it was.
C4_UnsupportedWarnsAndSkips ==
    [][Stepping /\ ResolveType(Cur) \notin SupportedKinds
         => WarnedOnce /\ Continued /\ UNCHANGED tools]_vars

\* C4 as amended: such a declaration produces no descriptor and never aborts the
\* build, so that the result is the one of the input without it; a warning is
\* emitted for it unless its discriminant is "bing_connection", which is skipped
\* without any warning.
C4_UnsupportedSkipped ==
    /\ [][Stepping /\ ResolveType(Cur) \notin SupportedKinds
            => /\ Continued /\ UNCHANGED tools
               /\ IF ResolveType(Cur) = "bing_connection"
                  THEN UNCHANGED warnings
                  ELSE WarnedOnce]_vars
    /\ [](result # Unset =>
             result = List(Restrict(SelectSeq(decls,
                                    LAMBDA t : ResolveType(t) \in SupportedKinds))))

\* A "bing_connection" declaration has been skipped silently and the loop goes on
\* with the declaration after it.
C4_Witness ==
    /\ entry = "build" /\ pc = "build" /\ Len(decls) = 2 /\ i = 2
    /\ ResolveType(decls[1]) = "bing_connection"
    /\ warnings = <<>> /\ tools = <<>>

----------------------------------------------------------------------------
\* An error raised by the registry (the script's own errors carry no tool_id).
RegistryError(err) == err.type = "AttributeError" \/ "tool_id" \in DOMAIN err

\* C5: when the registry raises in a run of main, the error reaches main, the
\* registration call is never made and main exits with status 1; main exits with
\* status 0 only after a registration call that did not raise.
C5_FailedBuildNeverRegisters ==
    /\ (entry = "main" /\ RegistryError(raised)
            => pc = "exited" /\ exit_status = "1" /\ client_calls = <<>>)
    /\ (entry = "main" /\ exit_status = "0"
            => /\ raised = NoError
               /\ Len(client_calls) = 1
               /\ client_calls[1].method = "agents.create_version"
               /\ client_calls[1].ok)
    /\ (pc = "exited" /\ raised # NoError => exit_status = "1")

\* main has exited after the registry raised on the second declaration of the document.
C5_Witness ==
    /\ entry = "main" /\ pc = "exited" /\ RegistryError(raised)
    /\ i = 2 /\ Len(tools) = 1

----------------------------------------------------------------------------
\* C6: an azure_ai_search declaration always succeeds: whatever its options entry
\* is (absent, null, empty, any mapping), nothing is raised and exactly one search
\* descriptor is appended.
C6_SearchAlwaysSucceeds ==
    [][CurIs("azure_ai_search")
         => AppendedOne /\ Continued /\ NewTool.cls = "AzureAISearchAgentTool"]_vars

----------------------------------------------------------------------------
\* C7: the connection_id and the index_name of a search descriptor are the values
\* supplied in options where one is supplied (whatever it is), and the defaults
\* "CONN_PRIMARY_SEARCH" and "primary-search-index" where none is.
C7_SearchDefaults ==
    [][CurIs("azure_ai_search") /\ tools' # tools
         => /\ AppendedOne
            /\ NewTool.connection_id =
                   (IF "connection_id" \in OptionKeys(Cur)
                    THEN OptionValue(Cur, "connection_id") ELSE "CONN_PRIMARY_SEARCH")
            /\ NewTool.index_name =
                   (IF "index_name" \in OptionKeys(Cur)
                    THEN OptionValue(Cur, "index_name") ELSE "primary-search-index")]_vars

\* A search declaration that supplies an empty connection_id and no index_name
\* has been processed.
C7_Witness ==
    /\ pc = "build" /\ i = 2
    /\ ResolveType(decls[1]) = "azure_ai_search"
    /\ OptionKeys(decls[1]) = {"connection_id"}
    /\ Len(tools) = 1
    /\ tools[1].connection_id = "" /\ tools[1].index_name = "primary-search-index"

----------------------------------------------------------------------------
\* The descriptor class each supported kind is built as.
ClassOf(kind) ==
    CASE kind = "azure_ai_search" -> "AzureAISearchAgentTool"
      [] kind = "file_search" -> "FileSearchTool"
      [] kind = "openapi" -> "OpenApiAgentTool"
      [] kind = "mcp" -> "MCPTool"
      [] kind = "code_interpreter" -> "CodeInterpreterTool"
      [] OTHER -> "none"

\* The step treated the declaration as one of discriminant D and identifier I:
\* without a discriminant it warned, built nothing and went on; with one, unless
\* the kind's own validation raised, it built a descriptor of that kind named I,
\* or nothing when the kind is not a supported one.
DispatchedOn(D, I) ==
    /\ ~Truthy(D) => WarnedOnce /\ Continued /\ UNCHANGED tools
    /\ Truthy(D) /\ raised' = NoError =>
           /\ Continued
           /\ IF D \in SupportedKinds
              THEN /\ AppendedOne
                   /\ NewTool.cls = ClassOf(D)
                   /\ "name" \in DOMAIN NewTool => NewTool.name = I
              ELSE UNCHANGED tools

\* d[k] is present and not empty.
TruthyKey(d, k) == k \in DOMAIN d /\ Truthy(d[k])

\* C8 as stated: the discriminant is `type` when `type` is present and otherwise
\* `kind`, the identifier is `id` when `id` is present and otherwise `name`; without
\* a discriminant the declaration is warned about and skipped, never fatal.
C8_AliasByPresence ==
    [][Stepping =>
         DispatchedOn(IF "type" \in DOMAIN Cur THEN Cur["type"] ELSE Get(Cur, "kind", None),
                      IF "id" \in DOMAIN Cur THEN Cur["id"] ELSE Get(Cur, "name", None))]_vars

\* C8 as amended: the discriminant is `type` when `type` is present and not empty
\* (neither null nor ""), otherwise `kind` when `kind` is present; the identifier
\* is `id` when `id` is present and not empty, otherwise `name` when `name` is
\* present, otherwise `id` as it was given; a declaration whose discriminant
\* resolves to nothing or to an empty value is warned about and skipped, never fatal.
C8_AliasByTruthiness ==
    [][Stepping =>
         DispatchedOn(IF TruthyKey(Cur, "type") \/ "kind" \notin DOMAIN Cur
                      THEN Get(Cur, "type", None) ELSE Cur["kind"],
                      IF TruthyKey(Cur, "id") \/ "name" \notin DOMAIN Cur
                      THEN Get(Cur, "id", None) ELSE Cur["name"])]_vars

\* A declaration with an empty `type` and `kind: file_search` has been built as a
\* file-search descriptor.
C8_Witness ==
    /\ pc = "build" /\ i = 2
    /\ "type" \in DOMAIN decls[1] /\ decls[1]["type"] = ""
    /\ "kind" \in DOMAIN decls[1] /\ decls[1]["kind"] = "file_search"
    /\ Len(tools) = 1 /\ tools[1].cls = "FileSearchTool"

----------------------------------------------------------------------------
\* C9: a file_search declaration without `vector_store_id` in its options emits a
\* warning and still appends one file-search descriptor whose vector_store_id is
\* null or empty; the build is not aborted and goes on with the next declaration.
C9_FileSearchLenient ==
    [][CurIs("file_search") /\ "vector_store_id" \notin OptionKeys(Cur)
         => /\ WarnedOnce /\ AppendedOne /\ Continued
            /\ NewTool.cls = "FileSearchTool"
            /\ NewTool.vector_store_id \in {None, ""}]_vars

----------------------------------------------------------------------------
\* C10 as stated: the spec_url of a built openapi descriptor is `specification`
\* when that option is present and otherwise `spec_url`; the descriptor carries a
\* connection_id exactly when `connection_id` is present in options, with its
\* value; only a `specification` URL given yields one descriptor with just that
\* spec_url.
C10_OpenApiByPresence ==
    [][CurIs("openapi") =>
         /\ tools' # tools =>
              /\ AppendedOne
              /\ NewTool.spec_url =
                     (IF "specification" \in OptionKeys(Cur)
                      THEN OptionValue(Cur, "specification")
                      ELSE OptionValue(Cur, "spec_url"))
              /\ "connection_id" \in DOMAIN NewTool <=> "connection_id" \in OptionKeys(Cur)
              /\ "connection_id" \in DOMAIN NewTool =>
                     NewTool.connection_id = OptionValue(Cur, "connection_id")
         /\ OptionKeys(Cur) = {"specification"} /\ Truthy(OptionValue(Cur, "specification")) =>
              /\ AppendedOne /\ Continued
              /\ NewTool = [cls |-> "OpenApiAgentTool",
                            spec_url |-> OptionValue(Cur, "specification")]]_vars

\* C10 as amended: the spec_url of a built openapi descriptor is `specification`
\* when that option is present and not empty, and otherwise the legacy `spec_url`;
\* the descriptor carries a connection_id exactly when `connection_id` is present
\* in options and not empty (neither null nor ""), with its value; only a
\* `specification` URL given yields one descriptor with just that spec_url.
C10_OpenApiByTruthiness ==
    [][CurIs("openapi") =>
         /\ tools' # tools =>
              /\ AppendedOne
              /\ NewTool.cls = "OpenApiAgentTool"
              /\ NewTool.spec_url =
                     (IF TruthyKey(Options(Cur).items, "specification")
                      THEN OptionValue(Cur, "specification")
                      ELSE OptionValue(Cur, "spec_url"))
              /\ "connection_id" \in DOMAIN NewTool <=>
                     TruthyKey(Options(Cur).items, "connection_id")
              /\ "connection_id" \in DOMAIN NewTool =>
                     NewTool.connection_id = OptionValue(Cur, "connection_id")
         /\ OptionKeys(Cur) = {"specification"} /\ Truthy(OptionValue(Cur, "specification")) =>
              /\ AppendedOne /\ Continued
              /\ NewTool = [cls |-> "OpenApiAgentTool",
                            spec_url |-> OptionValue(Cur, "specification")]]_vars

\* An openapi declaration with an empty `specification` and a legacy `spec_url`
\* has been built from the legacy option.
C10_Witness ==
    /\ pc = "build" /\ i = 2
    /\ ResolveType(decls[1]) = "openapi"
    /\ OptionKeys(decls[1]) = {"specification", "spec_url"}
    /\ OptionValue(decls[1], "specification") = ""
    /\ Len(tools) = 1 /\ tools[1].spec_url = OptionValue(decls[1], "spec_url")

----------------------------------------------------------------------------
\* C11: called directly with an empty or an absent (None) declaration sequence,
\* build_tools_from_yaml and convert_tools_from_yaml return the empty list, raise
\* nothing and print no warning.
C11_EmptyInputEmptyOutput ==
    entry \in {"build", "convert"} /\ Declarations(tools_cfg) = <<>>
        => /\ raised = NoError
           /\ warnings = <<>>
           /\ tools = <<>>
           /\ pc \in {entry, "returned"}
           /\ pc = "returned" => result = List(<<>>)
           /\ pc # "returned" => ENABLED (BuildReturn \/ ConvertTools)

\* build_tools_from_yaml has returned from a call with tools_cfg = None.
C11_Witness ==
    /\ entry = "build" /\ tools_cfg = NoneObj
    /\ pc = "returned" /\ result = List(<<>>)

----------------------------------------------------------------------------
\* The run of main ended with exit status 0.
Deployed == entry = "main" /\ pc = "exited" /\ exit_status = "0"

\* C12 as stated: a successful run makes the registration call exactly once, and the
\* tools the call receives are the sequence the registry returned for the
\* document's declarations, also when that sequence is empty.
C12_ToolsPassedUnmodified ==
    Deployed =>
        /\ Len(client_calls) = 1
        /\ result # Unset => client_calls[1].tools = result

\* C12 as amended: a successful run makes the registration call exactly once; when
\* the registry returned a non-empty sequence for the document's declarations the
\* call receives exactly that sequence (same descriptors, same order), and when it
\* returned the empty sequence, or the document declares no tools, the call
\* receives no tools at all (None) instead of an empty sequence.
C12_NonEmptyToolsPassedUnmodified ==
    Deployed =>
        /\ Len(client_calls) = 1
        /\ client_calls[1].method = "agents.create_version"
        /\ result # Unset =>
               /\ tools_cfg = agent_def.items["tools"]
               /\ result = List(Restrict(decls))
        /\ client_calls[1].tools =
               (IF result # Unset /\ result.items # <<>> THEN result ELSE NoneObj)

\* A document whose two declarations build two different descriptors has been
\* deployed.
C12_Witness ==
    /\ Deployed
    /\ result # Unset /\ Len(result.items) = 2
    /\ result.items[1] # result.items[2]
    /\ client_calls[1].tools = result

----------------------------------------------------------------------------
RECURSIVE FirstError(_)
\* The error of the first declaration of s that raises, NoError when none does.
FirstError(s) ==
    IF s = <<>> THEN NoError
    ELSE IF Process(Head(s)).act = "raise" THEN Process(Head(s)).err
    ELSE FirstError(Tail(s))

\* C13: no step of build_tools_from_yaml (append, skip, warning, raise or return)
\* changes its tools_cfg argument, the declarations or their options, and none
\* touches the client handle; what the call returns or raises is a function of
\* the declaration sequence alone.
C13_InputsUntouched ==
    /\ [][pc = "build" =>
            /\ tools_cfg' = tools_cfg
            /\ client' = client
            /\ client_calls' = client_calls]_vars
    /\ [](result # Unset => FirstError(decls) = NoError /\ result = List(Restrict(decls)))
    /\ [](pc = "raised" \/ RegistryError(raised) => raised = FirstError(decls))

\* A direct call has raised on its second declaration after building the first.
C13_Witness ==
    /\ entry = "build" /\ pc = "raised"
    /\ Len(decls) = 2 /\ i = 2 /\ Len(tools) = 1
    /\ client_calls = <<>>

----------------------------------------------------------------------------
\* The order of the external steps of deploy_guardrails.
StepOrder == <<"bicep build", "what-if", "create", "show">>

\* The outputs of `show` that report the provisioning state Succeeded.
SucceededOutputs == {<<"Succeeded">>, <<"Succeeded", "\n">>, <<" ", "Succeeded", "\n">>}

\* The k-th step ended the way the script needs to go on.
StepSucceeded(k) ==
    /\ az_calls[k].outcome = "ok"
    /\ k = 4 => az_calls[k].stdout \in SucceededOutputs

\* C14: the az steps run in the order validate, what-if, create, show; create is
\* not started unless validate succeeded, a failed what-if does not prevent create,
\* show is not started unless create succeeded; the script ends with status 0 only
\* after a show that succeeded and reported Succeeded, and every other outcome of
\* validate, create or show ends the process with status 1.
C14_GuardrailsStepOrder ==
    entry = "guardrails" =>
        /\ Len(az_calls) <= 4
        /\ \A k \in DOMAIN az_calls : az_calls[k].cmd = StepOrder[k]
        /\ Len(az_calls) >= 2 => az_calls[1].outcome = "ok"
        /\ Len(az_calls) = 2 => pc = "az_create" /\ ENABLED AzCreate
        /\ Len(az_calls) = 4 => az_calls[3].outcome = "ok"
        /\ \A k \in DOMAIN az_calls \cap {1, 3, 4} :
               ~StepSucceeded(k) =>
                   pc = "exited" /\ exit_status = "1" /\ Len(az_calls) = k
        /\ exit_status = "0" <=> Len(az_calls) = 4 /\ StepSucceeded(4)
        /\ pc = "exited" => exit_status \in {"0", "1"}

\* The script has ended with status 0 although its what-if step failed.
C14_Witness ==
    /\ entry = "guardrails" /\ pc = "exited" /\ exit_status = "0"
    /\ az_calls[2].outcome = "nonzero"
    /\ az_calls[4].name = <<"guardrails", "prod">>

====
